---- MODULE Spec2Model ----
(***************************************************************************)
(* Model of package xflag (stevedonovan/xflag): a FlagExtra wraps a        *)
(* flag.FlagSet and adds file-valued flags, list-valued flags, positional  *)
(* ("#N") flags, glob expansion and configuration files.                   *)
(*                                                                         *)
(* Text is modelled as sequences of one-character strings, so that         *)
(* splitting, trimming, number parsing and wildcard matching are computed  *)
(* the way the code computes them.                                         *)
(***************************************************************************)
EXTENDS Integers, Sequences, FiniteSets, TLC

VARIABLES
    flags,      \* fx.FlagSet's formal flags: name -> [Value, DefValue, sets]
    Files,      \* fx.Files: the flag-bound fileValues, in registration order
    handles,    \* the files this process has opened: [path, mode, by, closes]
    stdCloses,  \* number of Close calls that reached os.Stdin / os.Stdout
    fs,         \* paths that exist in the working directory
    args,       \* fx.Args(): the positional arguments left by the base parse
    pc,         \* "ready", "parsed", "closed", "quit", "failed" or "panic"
    last,       \* the last parse request: [op, cmdline, file]
    isWindows   \* runtime.GOOS == "windows"

vars == <<flags, Files, handles, stdCloses, fs, args, pc, last, isWindows>>

----------------------------------------------------------------------------
(* Bounds *)

MaxFlags == 2

----------------------------------------------------------------------------
(* Text primitives (package strings, strconv, path/filepath) *)

\* F applied to the value of x, with x computed once
Bind(x, F(_)) == CHOOSE y \in {F(v) : v \in {x}} : TRUE

stdin  == <<"s","t","d","i","n">>
stdout == <<"s","t","d","o","u","t">>

\* strings.IndexAny / strings.Index for one character: 0 when absent (Go: -1)
IndexAny(s, cs) ==
    LET I == {i \in 1..Len(s) : s[i] \in cs}
    IN  IF I = {} THEN 0 ELSE CHOOSE i \in I : \A j \in I : i <= j

\* strings.Split(s, sep) for a one-character separator
RECURSIVE Split(_, _)
Split(s, c) ==
    Bind(s, LAMBDA t :
        Bind(IndexAny(t, {c}), LAMBDA i :
            IF i = 0 THEN <<t>>
            ELSE <<SubSeq(t, 1, i - 1)>> \o Split(SubSeq(t, i + 1, Len(t)), c)))

\* strings.Join(a, sep)
RECURSIVE Join(_, _)
Join(a, c) ==
    IF a = <<>> THEN <<>>
    ELSE IF Len(a) = 1 THEN a[1]
    ELSE a[1] \o <<c>> \o Join(Tail(a), c)

\* strings.Replace(s, "\r\n", "\n", -1)
RECURSIVE ReplaceCRLF(_)
ReplaceCRLF(s) ==
    IF s = <<>> THEN <<>>
    ELSE IF Len(s) >= 2 /\ s[1] = "\r" /\ s[2] = "\n"
         THEN <<"\n">> \o ReplaceCRLF(Tail(Tail(s)))
    ELSE <<s[1]>> \o ReplaceCRLF(Tail(s))

Space == {" ", "\t", "\r", "\n"}

\* strings.TrimSpace
TrimSpace(s) ==
    LET I == {i \in 1..Len(s) : s[i] \notin Space}
    IN  IF I = {} THEN <<>>
        ELSE SubSeq(s, CHOOSE i \in I : \A j \in I : i <= j,
                       CHOOSE i \in I : \A j \in I : i >= j)

Digits == <<"0","1","2","3","4","5","6","7","8","9">>
DigitSet == {Digits[i] : i \in 1..Len(Digits)}
DigitVal(c) == (CHOOSE i \in 1..Len(Digits) : Digits[i] = c) - 1

RECURSIVE Num(_, _)
Num(s, acc) == IF s = <<>> THEN acc ELSE Num(Tail(s), acc * Len(Digits) + DigitVal(s[1]))

\* strconv.Atoi: an optional sign and at least one decimal digit
Atoi(s) ==
    LET neg  == Len(s) > 0 /\ s[1] = "-"
        body == IF neg THEN Tail(s) ELSE s
    IN  IF body = <<>> \/ \E i \in 1..Len(body) : body[i] \notin DigitSet
        THEN [ok |-> FALSE, v |-> 0]
        ELSE [ok |-> TRUE, v |-> IF neg THEN 0 - Num(body, 0) ELSE Num(body, 0)]

\* the decimal text of an integer (intValue.String)
RECURSIVE Itoa(_)
Itoa(n) ==
    IF n < 0 THEN <<"-">> \o Itoa(0 - n)
    ELSE IF n < Len(Digits) THEN <<Digits[n + 1]>>
    ELSE Itoa(n \div Len(Digits)) \o <<Digits[(n % Len(Digits)) + 1]>>

\* filepath.Match for the wildcards '*' and '?'
RECURSIVE Match(_, _)
Match(p, n) ==
    IF p = <<>> THEN n = <<>>
    ELSE IF p[1] = "*"
         THEN Match(Tail(p), n) \/ (n # <<>> /\ n[1] # "/" /\ Match(p, Tail(n)))
    ELSE IF p[1] = "?"
         THEN n # <<>> /\ n[1] # "/" /\ Match(Tail(p), Tail(n))
    ELSE n # <<>> /\ n[1] = p[1] /\ Match(Tail(p), Tail(n))

\* the characters of the model in byte order, for sorting directory entries
Alphabet == <<"\t","\n","\r"," ","#","*",",","-",
              "0","1","2","3","4","5","6","7","8","9","=","?",
              "a","b","c","d","i","n","o","s","t","u","x">>
Code(c) == CHOOSE i \in 1..Len(Alphabet) : Alphabet[i] = c

RECURSIVE LexLess(_, _)
LexLess(a, b) ==
    IF b = <<>> THEN FALSE
    ELSE IF a = <<>> THEN TRUE
    ELSE IF a[1] = b[1] THEN LexLess(Tail(a), Tail(b))
    ELSE Code(a[1]) < Code(b[1])

RECURSIVE SortPaths(_)
SortPaths(S) ==
    IF S = {} THEN <<>>
    ELSE Bind(CHOOSE x \in S : \A y \in S \ {x} : LexLess(x, y),
              LAMBDA m : <<m>> \o SortPaths(S \ {m}))

\* filepath.Glob(pattern) in the working directory: the matching names, sorted
filepathGlob(pattern, dir) ==
    Bind({n \in dir : Match(pattern, n)}, LAMBDA found : SortPaths(found))

\* glob(cmdline): every argument holding '*' or '?' is replaced by its matches
RECURSIVE glob(_, _)
glob(cmdline, dir) ==
    IF cmdline = <<>> THEN <<>>
    ELSE LET a == Head(cmdline)
         IN  (IF IndexAny(a, {"*", "?"}) > 0 THEN filepathGlob(a, dir) ELSE <<a>>)
             \o glob(Tail(cmdline), dir)

----------------------------------------------------------------------------
(* The operating system: files opened by the process *)

NilFile == 0      \* a nil *os.File
Stdin   == -1     \* os.Stdin
Stdout  == -2     \* os.Stdout

\* a path the process may not write (os.Create fails on it)
Unwritable == {<<"c">>}

\* The world a Set or Close acts on: w = [handles, fs, stdCloses].
\* os.Open(name): a new read-only handle when the path exists
osOpen(name, by, w) ==
    IF name \in w.fs
    THEN [ok |-> TRUE, f |-> Len(w.handles) + 1,
          w |-> [w EXCEPT !.handles = Append(@, [path |-> name, mode |-> "r",
                                                  by |-> by, closes |-> 0])]]
    ELSE [ok |-> FALSE, f |-> NilFile, w |-> w]

\* os.Create(name): a new write handle; the path exists afterwards
osCreate(name, by, w) ==
    IF name \notin Unwritable
    THEN [ok |-> TRUE, f |-> Len(w.handles) + 1,
          w |-> [w EXCEPT !.handles = Append(@, [path |-> name, mode |-> "w",
                                                  by |-> by, closes |-> 0]),
                          !.fs = @ \cup {name}]]
    ELSE [ok |-> FALSE, f |-> NilFile, w |-> w]

\* (*os.File).Close: on a nil file it returns EINVAL and does nothing
osClose(f, w) ==
    IF f = NilFile THEN w
    ELSE IF f \in {Stdin, Stdout} THEN [w EXCEPT !.stdCloses[f] = @ + 1]
    ELSE [w EXCEPT !.handles[f].closes = @ + 1]

----------------------------------------------------------------------------
(* Flag values.  Every value is a record of the same shape; `type` says     *)
(* which Go type it is and which fields it uses:                           *)
(*   "string"  *stringValue (package flag)   str                           *)
(*   "int"     *intValue    (package flag)   int                           *)
(*   "file"    *fileValue                    f, name, in, std, id          *)
(*   "ints"    *intsValue                    name, ints                    *)
(*   "strings" *stringsValue                 name, strings                 *)
(*   "files"   *filesValue                   name, names                   *)
(* id identifies a fileValue object: the flag it is bound to, or <<>> for   *)
(* the temporary one of filesValue.Convert.                                *)

NoValue ==
    [type |-> "", str |-> <<>>, int |-> 0, f |-> NilFile, name |-> <<>>,
     in |-> FALSE, std |-> FALSE, id |-> <<>>,
     ints |-> <<>>, strings |-> <<>>, names |-> <<>>]

ListTypes == {"ints", "strings", "files"}

\* flag.Value.(ListValue): only *ValueList has the ListValue method
IsListValue(v) == v.type \in ListTypes

\* newFileValue(name, in)
newFileValue(name, in, id) ==
    [NoValue EXCEPT !.type = "file", !.f = NilFile, !.name = name,
                    !.in = in, !.std = TRUE, !.id = id]

\* makeValueList(def) inside a filesValue / intsValue / stringsValue literal
makeValueList(type, def) == [NoValue EXCEPT !.type = type, !.name = def]

\* Value.String()
String(v) ==
    IF v.type = "string" THEN v.str
    ELSE IF v.type = "int" THEN Itoa(v.int)
    ELSE v.name

\* fileValue.Set(name)
fileValueSet(this, name, w) ==
    IF Len(name) = 0 THEN [ok |-> FALSE, v |-> this, w |-> w]
    ELSE IF name = stdin
    THEN [ok |-> TRUE, v |-> [this EXCEPT !.name = name, !.f = Stdin], w |-> w]
    ELSE IF name = stdout
    THEN [ok |-> TRUE, v |-> [this EXCEPT !.name = name, !.f = Stdout], w |-> w]
    ELSE LET t == [this EXCEPT !.std = FALSE]
             r == IF this.in THEN osOpen(name, this.id, w)
                             ELSE osCreate(name, this.id, w)
         IN  IF ~r.ok THEN [ok |-> FALSE, v |-> t, w |-> w]
             ELSE [ok |-> TRUE, v |-> [t EXCEPT !.name = name, !.f = r.f], w |-> r.w]

\* fileValue.Close()
fileValueClose(this, w) == IF ~this.std THEN osClose(this.f, w) ELSE w

\* filesValue.Convert(v)
filesValueConvert(this, part, w) ==
    LET r == fileValueSet(newFileValue(part, TRUE, <<>>), part, w)
    IN  IF ~r.ok THEN [ok |-> FALSE, v |-> this, w |-> w]
        ELSE [ok |-> TRUE, v |-> [this EXCEPT !.names = Append(@, r.v.name)],
              w |-> fileValueClose(r.v, r.w)]

\* intsValue.Convert(v)
intsValueConvert(this, part, w) ==
    LET a == Atoi(part)
    IN  IF ~a.ok THEN [ok |-> FALSE, v |-> this, w |-> w]
        ELSE [ok |-> TRUE, v |-> [this EXCEPT !.ints = Append(@, a.v)], w |-> w]

\* stringsValue.Convert(v)
stringsValueConvert(this, part, w) ==
    [ok |-> TRUE, v |-> [this EXCEPT !.strings = Append(@, part)], w |-> w]

\* this.converter.Convert(v)
Convert(this, part, w) ==
    IF this.type = "files" THEN filesValueConvert(this, part, w)
    ELSE IF this.type = "ints" THEN intsValueConvert(this, part, w)
    ELSE stringsValueConvert(this, part, w)

\* the loop of ValueList.Set over the parts; it returns at the first failure
RECURSIVE ConvertAll(_, _, _)
ConvertAll(this, values, w) ==
    IF values = <<>> THEN [ok |-> TRUE, v |-> this, w |-> w]
    ELSE Bind(Convert(this, Head(values), w), LAMBDA r :
             IF ~r.ok THEN r ELSE ConvertAll(r.v, Tail(values), r.w))

\* ValueList.Set(value)
ValueListSet(this, value, w) ==
    Bind(Split(value, ","), LAMBDA values : ConvertAll(this, values, w))

\* stringValue.Set, intValue.Set of package flag
stringValueSet(this, s, w) == [ok |-> TRUE, v |-> [this EXCEPT !.str = s], w |-> w]

intValueSet(this, s, w) ==
    LET a == Atoi(s)
    IN  IF ~a.ok THEN [ok |-> FALSE, v |-> this, w |-> w]
        ELSE [ok |-> TRUE, v |-> [this EXCEPT !.int = a.v], w |-> w]

\* flag.Value.Set(s), dispatched on the value's type
Set(this, s, w) ==
    IF this.type = "file" THEN fileValueSet(this, s, w)
    ELSE IF this.type \in ListTypes THEN ValueListSet(this, s, w)
    ELSE IF this.type = "int" THEN intValueSet(this, s, w)
    ELSE stringValueSet(this, s, w)

----------------------------------------------------------------------------
(* package flag: the FlagSet created with flag.ExitOnError *)

\* FlagSet.Var(value, name, usage): DefValue is value.String() at this moment.
\* sets is the history of the flag: the tokens its Value.Set has accepted.
Var(fl, value, name) ==
    [n \in DOMAIN fl \cup {name} |->
        IF n = name THEN [Value |-> value, DefValue |-> String(value), sets |-> <<>>]
        ELSE fl[n]]

\* FlagSet.Parse(arguments): parseOne until the first non-flag argument.
\* ok = FALSE is failf under ExitOnError: usage is printed and the process
\* exits with status 2.  (No bool flags are registered, so the branch of
\* parseOne for them is left out.)
RECURSIVE FlagSetParse(_, _, _)
FlagSetParse(fl, toks, w) ==
    IF toks = <<>> THEN [ok |-> TRUE, flags |-> fl, w |-> w, args |-> <<>>]
    ELSE
    LET s == Head(toks) IN
    IF Len(s) = 0 \/ s[1] # "-" \/ Len(s) = 1
    THEN [ok |-> TRUE, flags |-> fl, w |-> w, args |-> toks]
    ELSE
    LET minuses == IF s[2] = "-" THEN 2 ELSE 1 IN
    IF minuses = 2 /\ Len(s) = 2
    THEN [ok |-> TRUE, flags |-> fl, w |-> w, args |-> Tail(toks)]
    ELSE
    LET nm   == SubSeq(s, minuses + 1, Len(s))
        eq   == IF Len(nm) < 2 THEN 0
                ELSE LET k == IndexAny(Tail(nm), {"="}) IN IF k = 0 THEN 0 ELSE k + 1
        name == IF eq = 0 THEN nm ELSE SubSeq(nm, 1, eq - 1)
        rest == Tail(toks)
        hasv == eq # 0 \/ rest # <<>>
        val  == IF eq # 0 THEN SubSeq(nm, eq + 1, Len(nm))
                ELSE IF rest # <<>> THEN Head(rest) ELSE <<>>
        more == IF eq # 0 \/ rest = <<>> THEN rest ELSE Tail(rest)
        bad  == [ok |-> FALSE, flags |-> fl, w |-> w, args |-> <<>>]
    IN
    IF Len(nm) = 0 \/ nm[1] = "-" \/ nm[1] = "=" THEN bad
    ELSE IF name \notin DOMAIN fl THEN bad
    ELSE IF ~hasv THEN bad
    ELSE Bind(Set(fl[name].Value, val, w), LAMBDA r :
             Bind([fl EXCEPT ![name].Value = r.v,
                              ![name].sets = IF r.ok THEN Append(@, val) ELSE @],
                  LAMBDA f2 :
                 IF ~r.ok THEN [ok |-> FALSE, flags |-> f2, w |-> r.w, args |-> <<>>]
                 ELSE FlagSetParse(f2, more, r.w)))

----------------------------------------------------------------------------
(* FlagExtra.Parse *)

\* ArgIndex without the decrement: #n read as a zero-based index
ArgIndexNoDecrement(n) == n

\* idx-- : the zero-based index of positional flag #n
ArgIndex(n) == n - 1

\* ArgValue without the ListValue branch: a list flag takes one argument
ArgValueSingle(flag, a, idx) == a[idx + 1]

\* the value of a positional flag whose index is below len(args)
ArgValue(flag, a, idx) ==
    IF IsListValue(flag.Value) THEN Join(SubSeq(a, idx + 1, Len(a)), ",")
    ELSE a[idx + 1]

\* val: arguments when idx < len(args), flag.DefValue otherwise
PositionalValue(flag, a, idx) ==
    IF idx < Len(a) THEN ArgValue(flag, a, idx) ELSE flag.DefValue

\* The callback of fx.VisitAll, applied to the flags in the order the FlagSet
\* yields them.  The result is "parsed" when every flag was visited, "quit"
\* when quitf printed its message and called os.Exit(1), and "panic" when
\* indexing args below zero stopped the program.
RECURSIVE Visit(_, _, _, _)
Visit(fl, order, a, w) ==
    IF order = <<>> THEN [pc |-> "parsed", flags |-> fl, w |-> w]
    ELSE
    LET name == Head(order)
        flag == fl[name]
    IN
    IF name[1] # "#" THEN Visit(fl, Tail(order), a, w)
    ELSE
    LET n == Atoi(Tail(name)) IN
    IF ~n.ok THEN [pc |-> "quit", flags |-> fl, w |-> w]
    ELSE
    LET idx == ArgIndex(n.v) IN
    IF idx < 0 THEN [pc |-> "panic", flags |-> fl, w |-> w]
    ELSE
    Bind(PositionalValue(flag, a, idx), LAMBDA val :
        Bind(Set(flag.Value, val, w), LAMBDA res :
            Bind([fl EXCEPT ![name].Value = res.v,
                             ![name].sets = IF res.ok THEN Append(@, val) ELSE @],
                 LAMBDA f2 :
                     IF ~res.ok THEN [pc |-> "quit", flags |-> f2, w |-> res.w]
                     ELSE Visit(f2, Tail(order), a, res.w))))

\* fx.Parse(cmdline, doGlob) with the flags visited in `order`.  "failed" is
\* the exit of the base parse (flag.ExitOnError).
Parse(fl, w, oldargs, cmdline, doGlob, order) ==
    Bind(IF doGlob THEN glob(cmdline, w.fs) ELSE cmdline, LAMBDA toks :
        Bind(FlagSetParse(fl, toks, w), LAMBDA b :
            IF ~b.ok
            THEN [pc |-> "failed", flags |-> b.flags, w |-> b.w, args |-> oldargs]
            ELSE Bind(Visit(b.flags, order, b.args, b.w), LAMBDA r :
                     [pc |-> r.pc, flags |-> r.flags, w |-> r.w, args |-> b.args])))

\* ConfigLine without the leading hyphen on var=value lines
ConfigLineNoHyphen(line) ==
    LET idx == IndexAny(line, {"#"})
    IN  TrimSpace(IF idx > 0 THEN SubSeq(line, 1, idx - 1) ELSE line)

\* one line of a configuration file as ParseConfig rewrites it
ConfigLine(line) ==
    LET idx == IndexAny(line, {"#"})
        cut == IF idx > 0 THEN SubSeq(line, 1, idx - 1) ELSE line
    IN  Bind(TrimSpace(cut), LAMBDA t :
            IF Len(t) > 0 /\ IndexAny(t, {"="}) > 0 THEN <<"-">> \o t ELSE t)

\* out: the rewritten lines that are not empty
ConfigTokens(bytes) ==
    Bind(ReplaceCRLF(bytes), LAMBDA contents :
        Bind(Split(contents, "\n"), LAMBDA lines :
            SelectSeq([i \in 1..Len(lines) |-> ConfigLine(lines[i])],
                      LAMBDA t : Len(t) > 0)))

----------------------------------------------------------------------------
(* Inputs *)

\* the working directory when the program starts
StartFiles == {<<"a">>, <<"b">>}

\* flag names a program registers
NameI     == <<"i">>
NameP1    == <<"#","1">>
NameP2    == <<"#","2">>
NameP0    == <<"#","0">>
NamePNeg  == <<"#","-","1">>
NamePX    == <<"#","x">>
NamePNone == <<"#">>

FileNames    == {NameI, NameP1}
FileDefaults == {stdin, <<>>}
OutDefaults  == {stdout}
ListNames    == {NameI, NameP1, NameP2, NamePNeg}
IntsDefaults == {<<"0">>, <<>>}
FilesDefaults == {stdin, <<>>}
StringsDefaults == {<<"s">>}
StringNames  == {NameI, NameP1, NameP0, NamePX, NamePNone}
StringDefaults == {<<"d">>}
IntNames     == {NameP2}
IntDefaults  == {40}

\* os.Args[1:]
CmdLines == {
    <<>>,
    <<<<"1","0">>, <<"2","0">>, <<"3","0">>>>,
    <<<<"a">>>>,
    <<<<"c">>>>,
    <<<<"*">>>>,
    <<<<"-","i","=","a">>>>,
    <<<<"-","i","=","a","*">>>>,
    <<<<"-","i","=","a">>, <<"-","i","=","s","t","d","i","n">>>>,
    <<<<"-","i","=","a">>, <<"-","i","=","b">>>>,
    <<<<"-","i">>, <<"1",",","2">>, <<"-","i","=","3">>>> }

\* configuration files that can be read: name -> content
ConfigFS ==
    [f \in {"comments", "plain", "wild", "wildlist", "list", "hash", "space", "pos"} |->
        IF f = "comments" THEN <<"#"," ","c","\n","\n">>
        ELSE IF f = "plain" THEN <<"i","=","a","\n">>
        ELSE IF f = "wild" THEN <<"i","=","a","*">>
        ELSE IF f = "wildlist" THEN <<"i","=","a","*",",","b">>
        ELSE IF f = "list" THEN <<"#"," ","c","\r","\n","i","=","1",",","2"," ","#"," ","x","\n">>
        ELSE IF f = "space" THEN <<"i","=","a"," ">>
        ELSE IF f = "hash" THEN <<"i","=","a","#","b">>
        ELSE <<"a","\n","*","\n">>]

\* file names given to ParseConfig; "none" cannot be read
ConfigNames == DOMAIN ConfigFS \cup {"none"}

----------------------------------------------------------------------------
(* The program *)

World == [handles |-> handles, fs |-> fs, stdCloses |-> stdCloses]

\* the orders in which VisitAll may yield the flags (iteration over a map)
Orders(fl) ==
    LET n == Cardinality(DOMAIN fl)
    IN  {o \in [1..n -> DOMAIN fl] : \A i, j \in 1..n : o[i] = o[j] => i = j}

\* NewFlag(), on a host that is Windows or not
Init ==
    /\ flags = <<>>
    /\ Files = <<>>
    /\ handles = <<>>
    /\ stdCloses = [f \in {Stdin, Stdout} |-> 0]
    /\ fs = StartFiles
    /\ args = <<>>
    /\ pc = "ready"
    /\ last = [op |-> "none", cmdline |-> <<>>, file |-> ""]
    /\ isWindows \in BOOLEAN

CanRegister(name) ==
    /\ pc = "ready"
    /\ name \notin DOMAIN flags
    /\ Cardinality(DOMAIN flags) < MaxFlags

\* fx.OpenFile(name, def, usage): fx.newFileValue(def, true), then fx.Var
OpenFile ==
    \E name \in FileNames, def \in FileDefaults :
        /\ CanRegister(name)
        /\ Files' = Append(Files, name)
        /\ flags' = Var(flags, newFileValue(def, TRUE, name), name)
        /\ UNCHANGED <<handles, stdCloses, fs, args, pc, last, isWindows>>

\* fx.CreateFile(name, def, usage): fx.newFileValue(def, false), then fx.Var
CreateFile ==
    \E name \in FileNames, def \in OutDefaults :
        /\ CanRegister(name)
        /\ Files' = Append(Files, name)
        /\ flags' = Var(flags, newFileValue(def, FALSE, name), name)
        /\ UNCHANGED <<handles, stdCloses, fs, args, pc, last, isWindows>>

\* fx.OpenFileList(name, def, usage)
OpenFileList ==
    \E name \in ListNames, def \in FilesDefaults :
        /\ CanRegister(name)
        /\ flags' = Var(flags, makeValueList("files", def), name)
        /\ UNCHANGED <<Files, handles, stdCloses, fs, args, pc, last, isWindows>>

\* fx.IntList(name, def, usage)
IntList ==
    \E name \in ListNames, def \in IntsDefaults :
        /\ CanRegister(name)
        /\ flags' = Var(flags, makeValueList("ints", def), name)
        /\ UNCHANGED <<Files, handles, stdCloses, fs, args, pc, last, isWindows>>

\* fx.StringList(name, def, usage)
StringList ==
    \E name \in ListNames, def \in StringsDefaults :
        /\ CanRegister(name)
        /\ flags' = Var(flags, makeValueList("strings", def), name)
        /\ UNCHANGED <<Files, handles, stdCloses, fs, args, pc, last, isWindows>>

\* fx.String(name, def, usage), promoted from the embedded *flag.FlagSet
FlagString ==
    \E name \in StringNames, def \in StringDefaults :
        /\ CanRegister(name)
        /\ flags' = Var(flags, [NoValue EXCEPT !.type = "string", !.str = def], name)
        /\ UNCHANGED <<Files, handles, stdCloses, fs, args, pc, last, isWindows>>

\* fx.Int(name, def, usage), promoted from the embedded *flag.FlagSet
FlagInt ==
    \E name \in IntNames, def \in IntDefaults :
        /\ CanRegister(name)
        /\ flags' = Var(flags, [NoValue EXCEPT !.type = "int", !.int = def], name)
        /\ UNCHANGED <<Files, handles, stdCloses, fs, args, pc, last, isWindows>>

\* the state after fx.Parse returned or ended the process
Parsed(r, op, cmdline, file) ==
    /\ flags' = r.flags
    /\ handles' = r.w.handles
    /\ fs' = r.w.fs
    /\ stdCloses' = r.w.stdCloses
    /\ args' = r.args
    /\ pc' = r.pc
    /\ last' = [op |-> op, cmdline |-> cmdline, file |-> file]
    /\ UNCHANGED <<Files, isWindows>>

\* fx.ParseArgs()
ParseArgs ==
    /\ pc = "ready"
    /\ \E cmdline \in CmdLines, order \in Orders(flags) :
           \E r \in {Parse(flags, World, args, cmdline, isWindows, order)} :
               Parsed(r, "ParseArgs", cmdline, "")

\* fx.ParseConfig(filename)
ParseConfig ==
    /\ pc = "ready"
    /\ \E filename \in ConfigNames, order \in Orders(flags) :
           IF filename \notin DOMAIN ConfigFS
           THEN Parsed([pc |-> "quit", flags |-> flags, w |-> World, args |-> args],
                       "ParseConfig", <<>>, filename)
           ELSE \E out \in {ConfigTokens(ConfigFS[filename])} :
                \E r \in {Parse(flags, World, args, out, TRUE, order)} :
                    Parsed(r, "ParseConfig", <<>>, filename)

RECURSIVE CloseAll(_, _, _)
CloseAll(files, fl, w) ==
    IF files = <<>> THEN w
    ELSE CloseAll(Tail(files), fl, fileValueClose(fl[Head(files)].Value, w))

\* fx.Close()
Close ==
    /\ pc \in {"ready", "parsed"}
    /\ \E w \in {CloseAll(Files, flags, World)} :
           /\ handles' = w.handles
           /\ stdCloses' = w.stdCloses
           /\ fs' = w.fs
    /\ pc' = "closed"
    /\ UNCHANGED <<flags, Files, args, last, isWindows>>

Next ==
    \/ OpenFile
    \/ CreateFile
    \/ OpenFileList
    \/ IntList
    \/ StringList
    \/ FlagString
    \/ FlagInt
    \/ ParseArgs
    \/ ParseConfig
    \/ Close

Spec == Init /\ [][Next]_vars

----------------------------------------------------------------------------
(* Vocabulary of the properties *)

FileFlags == {n \in DOMAIN flags : flags[n].Value.type = "file"}
ListFlags == {n \in DOMAIN flags : IsListValue(flags[n].Value)}

\* flags named '#' followed by a positive integer, and the other '#' flags
Ordinals    == {n \in DOMAIN flags : n[1] = "#" /\ Atoi(Tail(n)).ok /\ Atoi(Tail(n)).v >= 1}
BadOrdinals == {n \in DOMAIN flags : n[1] = "#"} \ Ordinals
OrdinalOf(n) == Atoi(Tail(n)).v

LastSet(n) == flags[n].sets[Len(flags[n].sets)]

\* the elements a list value holds, and the conversion of a token's parts
Elements(v) ==
    IF v.type = "ints" THEN v.ints ELSE IF v.type = "strings" THEN v.strings ELSE v.names

Converted(v, token) ==
    LET parts == Split(token, ",")
    IN  [k \in 1..Len(parts) |-> IF v.type = "ints" THEN Atoi(parts[k]).v ELSE parts[k]]

\* a file value holds the open handle its name stands for
HoldsOpenHandle(v) ==
    \/ v.f = Stdin /\ v.name = stdin
    \/ v.f = Stdout /\ v.name = stdout
    \/ /\ v.f \in 1..Len(handles)
       /\ handles[v.f].path = v.name
       /\ handles[v.f].closes = 0

\* a scalar value is bound to a token
BoundTo(v, token) ==
    IF v.type = "string" THEN v.str = token
    ELSE IF v.type = "int" THEN Atoi(token).ok /\ v.int = Atoi(token).v
    ELSE v.name = token /\ HoldsOpenHandle(v)

----------------------------------------------------------------------------
(* C1: after Parse has returned, every flag registered with OpenFile or     *)
(* CreateFile holds an open handle (the standard stream its value names or  *)
(* an opened file), also when only its default applies.                     *)
C1_FileFlagsHoldOpenHandle ==
    pc = "parsed" => \A n \in FileFlags : HoldsOpenHandle(flags[n].Value)

(* C2: whenever a file value is bound to standard input or standard output  *)
(* it is marked as a standard stream, and no Close ever reaches a standard  *)
(* stream.                                                                  *)
C2_StandardStreamsNeverClosed ==
    /\ \A n \in FileFlags :
           flags[n].Value.f \in {Stdin, Stdout} => flags[n].Value.std
    /\ \A f \in {Stdin, Stdout} : stdCloses[f] = 0

(* C3: once fx.Close has completed, every file a flag-bound value opened    *)
(* or created has been closed exactly once.                                 *)
C3_OpenedFilesClosedOnce ==
    pc = "closed" =>
        \A h \in 1..Len(handles) : handles[h].by # <<>> => handles[h].closes = 1

(* C4: after a successful Set a list value holds exactly the conversion of  *)
(* the comma-separated parts of that token; nothing of earlier Set calls    *)
(* is retained.                                                             *)
C4_ListHoldsLastSetOnly ==
    pc = "parsed" =>
        \A n \in ListFlags :
            flags[n].sets # <<>> =>
                Elements(flags[n].Value) = Converted(flags[n].Value, LastSet(n))

(* C5, as amended: after Parse has returned, the token the positional     *)
(* pass applied to a list flag #N (N >= 1) is the positional arguments from *)
(* index N-1 to the end joined with ',' when there are at least N of them,  *)
(* and the flag's declared default otherwise; a list flag set only by that  *)
(* token holds the conversion of its parts.                                 *)
C5_ListOrdinalToken ==
    pc = "parsed" =>
        \A n \in Ordinals \cap ListFlags :
            LET N     == OrdinalOf(n)
                token == IF N <= Len(args) THEN Join(SubSeq(args, N, Len(args)), ",")
                         ELSE flags[n].DefValue
            IN  /\ flags[n].sets # <<>>
                /\ LastSet(n) = token
                /\ Len(flags[n].sets) = 1 =>
                       Elements(flags[n].Value) = Converted(flags[n].Value, token)

\* C5 witness: 10 20 30 bound to the integer list #1 as [10,20,30]
C5_Witness ==
    /\ pc = "parsed"
    /\ args = << <<"1","0">>, <<"2","0">>, <<"3","0">> >>
    /\ NameP1 \in DOMAIN flags
    /\ flags[NameP1].Value.type = "ints"
    /\ flags[NameP1].Value.ints = <<10, 20, 30>>

(* C5 as stated: whatever the number of positional arguments, the token     *)
(* applied to a list flag #N is the arguments from index N-1 to the end     *)
(* joined with ','; the default is never used for a list flag.              *)
C5_Original ==
    pc = "parsed" =>
        \A n \in Ordinals \cap ListFlags :
            /\ flags[n].sets # <<>>
            /\ LastSet(n) = Join(SubSeq(args, OrdinalOf(n), Len(args)), ",")

(* C6: after Parse has returned, a scalar flag #N (N >= 1) is bound to      *)
(* args[N-1] when N <= len(args) and to its declared default otherwise,     *)
(* whatever the order in which the flags were visited; and the positional   *)
(* arguments are all still there.                                           *)
C6_ScalarOrdinalBinding ==
    pc = "parsed" =>
        /\ \A n \in Ordinals \ ListFlags :
               LET N     == OrdinalOf(n)
                   token == IF N <= Len(args) THEN args[N] ELSE flags[n].DefValue
               IN  /\ flags[n].sets # <<>>
                   /\ LastSet(n) = token
                   /\ BoundTo(flags[n].Value, token)
        /\ (/\ last.op = "ParseArgs"
            /\ \A k \in 1..Len(last.cmdline) :
                   /\ last.cmdline[k][1] # "-"
                   /\ IndexAny(last.cmdline[k], {"*", "?"}) = 0)
           => args = last.cmdline

\* C6 witness: 10 20 30 with String #1 and Int #2: "10", 20, and 30 left over
C6_Witness ==
    /\ pc = "parsed"
    /\ args = << <<"1","0">>, <<"2","0">>, <<"3","0">> >>
    /\ NameP1 \in DOMAIN flags /\ NameP2 \in DOMAIN flags
    /\ flags[NameP1].Value.type = "string"
    /\ flags[NameP1].Value.str = <<"1","0">>
    /\ flags[NameP2].Value.type = "int"
    /\ flags[NameP2].Value.int = 20

----------------------------------------------------------------------------
(* Configuration line against command-line token *)

\* the text lines of a file
FileLines(bytes) == Split(bytes, "\n")

\* the file holds the single line `line`, with or without a final line break
HoldsOnly(bytes, line) ==
    FileLines(bytes) = <<line>> \/ FileLines(bytes) = <<line, <<>>>>

\* name=value with a name
IsDirective(line) == IndexAny(line, {"="}) > 1 /\ IndexAny(line, {"\n"}) = 0

\* the name of a directive
KeyOf(line) == SubSeq(line, 1, IndexAny(line, {"="}) - 1)

\* a directive without comment mark or surrounding white space, and without
\* wildcard unless the host expands wildcards on the command line too
IsPlain(line) ==
    /\ IsDirective(line)
    /\ IndexAny(line, {"#"}) = 0
    /\ TrimSpace(line) = line
    /\ IndexAny(line, {"*", "?"}) = 0 \/ isWindows

Outcome(r) == <<r.pc, r.flags, r.w.handles, r.w.fs, r.w.stdCloses, r.args>>

\* what ParseArgs can produce from here for the token -line
ArgsOutcomes(line) ==
    {Outcome(Parse(flags, World, args, << <<"-">> \o line >>, isWindows, o)) :
        o \in Orders(flags)}

\* what ParseConfig can produce from here for a file holding only line
ConfigOutcomes(line) ==
    {Outcome(Parse(flags, World, args, ConfigTokens(line), TRUE, o)) :
        o \in Orders(flags)}

\* the two parses agree on every directive for a registered flag that the
\* predicate Covers(_) admits
RoundTrip(Covers(_)) ==
    /\ (/\ pc = "ready" /\ last'.op = "ParseConfig"
        /\ last'.file \in DOMAIN ConfigFS
        /\ \E line \in {FileLines(ConfigFS[last'.file])[1]} :
               /\ HoldsOnly(ConfigFS[last'.file], line)
               /\ Covers(line) /\ KeyOf(line) \in DOMAIN flags)
       => <<pc', flags', handles', fs', stdCloses', args'>>
              \in ArgsOutcomes(FileLines(ConfigFS[last'.file])[1])
    /\ (/\ pc = "ready" /\ last'.op = "ParseArgs"
        /\ Len(last'.cmdline) = 1
        /\ last'.cmdline[1][1] = "-"
        /\ Covers(Tail(last'.cmdline[1]))
        /\ KeyOf(Tail(last'.cmdline[1])) \in DOMAIN flags)
       => <<pc', flags', handles', fs', stdCloses', args'>>
              \in ConfigOutcomes(Tail(last'.cmdline[1]))

(* C7, as amended: for every registered flag name and every value such     *)
(* that name=value holds no comment mark ('#'), no leading or trailing      *)
(* white space and, on a host where command-line glob expansion is off, no  *)
(* wildcard ('*', '?'), ParseConfig of a file holding only that line and    *)
(* ParseArgs of the single token -name=value produce the same result.       *)
C7_RoundTripPlain == [][RoundTrip(IsPlain)]_vars

\* C7 witness: the file "i=a" has bound the file flag i to an open handle on a
C7_Witness ==
    /\ pc = "parsed"
    /\ last.op = "ParseConfig" /\ last.file = "plain"
    /\ NameI \in FileFlags
    /\ flags[NameI].sets = << <<"a">> >>
    /\ BoundTo(flags[NameI].Value, <<"a">>)

(* C7 as stated: the two parses produce the same result for every flag      *)
(* name and value, wildcards included.                                      *)
C7_Original == [][RoundTrip(IsDirective)]_vars

(* C8: when a configuration file's line key=value has a wildcard in its     *)
(* value and key is a file list, the list is bound to the paths the         *)
(* wildcard matches together with the other comma-separated parts.          *)
C8_ConfigWildcardExpanded ==
    (/\ pc = "parsed" /\ last.op = "ParseConfig"
     /\ last.file \in DOMAIN ConfigFS
     /\ IsDirective(FileLines(ConfigFS[last.file])[1])
     /\ HoldsOnly(ConfigFS[last.file], FileLines(ConfigFS[last.file])[1]))
    => LET line  == FileLines(ConfigFS[last.file])[1]
           eq    == IndexAny(line, {"="})
           key   == SubSeq(line, 1, eq - 1)
           value == SubSeq(line, eq + 1, Len(line))
       IN  (/\ IndexAny(value, {"*", "?"}) > 0 /\ IndexAny(value, {"#", " "}) = 0
            /\ key \in DOMAIN flags /\ flags[key].Value.type = "files")
           => flags[key].Value.names = glob(Split(value, ","), StartFiles)

(* C9: after a successful Set on a file list, every recorded name is a path *)
(* the converter opened read-only and closed again, which the caller can    *)
(* open; no handle of the converter stays open.                             *)
C9_ListedFilesWereOpened ==
    pc = "parsed" =>
        /\ \A n \in ListFlags :
               flags[n].Value.type = "files" =>
                   \A k \in 1..Len(flags[n].Value.names) :
                       /\ flags[n].Value.names[k] \in fs
                       /\ \E h \in 1..Len(handles) :
                              /\ handles[h].by = <<>>
                              /\ handles[h].path = flags[n].Value.names[k]
                              /\ handles[h].mode = "r"
                              /\ handles[h].closes = 1
        /\ \A h \in 1..Len(handles) : handles[h].by = <<>> => handles[h].closes = 1

(* C10: with a registered flag whose name is '#' followed by anything but a *)
(* positive integer, Parse ends in the fatal diagnostic and sets no value   *)
(* on that flag; args is never indexed below zero.                          *)
C10_BadOrdinalIsFatal ==
    (last.op # "none" /\ BadOrdinals # {}) =>
        /\ pc \in {"quit", "failed"}
        /\ \A n \in BadOrdinals : flags[n].sets = <<>>

====
